---- MODULE Spec2Model ----
(***************************************************************************)
(* deepclean: a directory walker that applies a fixed list of cleanup      *)
(* patterns (src/src/main.rs) to every directory below a root.             *)
(*                                                                         *)
(* The filesystem is a finite map from paths to entry types.  External     *)
(* commands are opaque: each spawned command shows one behaviour out of    *)
(* Behaviours, and the wait status the wrapper `timeout` hands back to     *)
(* run_command follows from that behaviour.                                *)
(***************************************************************************)
EXTENDS Integers, Sequences, FiniteSets, TLC

VARIABLES
    fs,         \* path -> "dir" | "file" | "other" | "gone"
    noperm,     \* directories whose read_dir fails (permission denied)
    dry_run,    \* main: dry_run flag
    rev,        \* the order read_dir lists entries in (stable for an unmodified tree)
    pc,         \* position of main: "start" | "list" | "root" | "meta" | "exited" |
                \* "loop" | "rules" | "clean" | "enum" | "done" | "panicked"
                \* (pattern specification: "call" | "returned")
    stk,        \* main: stk
    dir,        \* main: dir, the path popped last
    ri,         \* index into pats of the rule being processed for dir
    n_matched,  \* main: n_matched
    n_cleaned,  \* main: n_cleaned
    out,        \* match lines written to stdout, in order
    errs,       \* diagnostics written to stderr, in order
    summary,    \* the final "Cleaned c/m matches" line, <<>> until printed
    exit_code,  \* process exit code, -1 while running
    spawned,    \* every command handed to Command::status, in order
    runs,       \* the run_command calls of the latest match_dir / clean_dir call
    last,       \* the latest match_dir / clean_dir call and its result
    popped,     \* every path popped from stk, in order
    pushed,     \* every path pushed on stk after the root, in order
    cleans,     \* result of every clean_dir call of the traversal
    verified,   \* every check command run in the traversal, with its outcome
    upat,       \* the Pattern under test (pattern specification only)
    run,        \* number of the current traversal (repeated-run specification)
    prev,       \* report and counters of the previous traversal
    evals,      \* every match_dir and clean_dir call of the traversal, in order
    args        \* std::env::args after the executable name

vars == << fs, noperm, dry_run, rev, pc, stk, dir, ri, n_matched, n_cleaned, out,
           errs, summary, exit_code, spawned, runs, last, popped, pushed, cleans,
           verified, upat, run, prev, evals, args >>

-----------------------------------------------------------------------------
(* Bounds of the model *)

\* at most this many directories of the tree are unreadable
MaxNoPerm == 1

\* at most this many entries in the directory a pattern is tested against
MaxEntries == 3

\* at most this many command line arguments after the executable name
MaxArgs == 2

-----------------------------------------------------------------------------
(* Paths and the filesystem *)

Root == << >>

Last(p) == p[Len(p)]

Front(s) == SubSeq(s, 1, Len(s) - 1)

IsPrefix(p, q) == Len(p) <= Len(q) /\ SubSeq(q, 1, Len(p)) = p

\* The tree the walker is run on.  The clean recipe of its Makefiles is
\* `rm -rf __pycache__ *.pyc *.pyo`.
Tree0 ==
    ( Root :> "dir"
   @@ <<"lnk">> :> "other"
   @@ <<"proj">> :> "dir"
   @@ <<"proj", "Cargo.toml">> :> "file"
   @@ <<"proj", "target">> :> "dir"
   @@ <<"repo">> :> "dir"
   @@ <<"repo", "Makefile">> :> "file"
   @@ <<"repo", "Cargo.toml">> :> "file"
   @@ <<"repo", "target">> :> "other"
   @@ <<"repo", ".git">> :> "file"
   @@ <<"pkg">> :> "dir"
   @@ <<"pkg", "Makefile">> :> "file"
   @@ <<"pkg", "m.pyc">> :> "file"
   @@ <<"pkg", "__pycache__">> :> "dir"
   @@ <<"pkg", "__pycache__", "x.pyo">> :> "file" )

\* Entry names of the directory a single pattern is tested against.
UnitNames == {"Makefile", "makefile", "m.pyc", "x.pyo", "target"}

AllPaths == DOMAIN Tree0 \cup { <<n>> : n \in UnitNames }

EntryTypes == {"file", "dir", "other"}

\* the tree as the walker finds it, as a function on AllPaths
Fs0 == [p \in AllPaths |-> IF p \in DOMAIN Tree0 THEN Tree0[p] ELSE "gone"]

\* std::fs::read_dir(d) fails: d is gone (or no directory), or permission denied
ReadDirFails(f, np, d) == f[d] # "dir" \/ d \in np

\* the entries read_dir(d) yields
Children(f, d) ==
    { p \in AllPaths : Len(p) = Len(d) + 1 /\ IsPrefix(d, p) /\ f[p] # "gone" }

\* file_name order of a directory listing
NameOrder ==
    << ".git", "Cargo.toml", "Makefile", "__pycache__", "lnk", "m.pyc", "makefile",
       "pkg", "proj", "repo", "target", "x.pyo" >>

Rank(p) == CHOOSE i \in 1..Len(NameOrder) : NameOrder[i] = Last(p)

RECURSIVE Listing(_, _)
Listing(S, r) ==
    IF S = {} THEN << >>
    ELSE LET m == CHOOSE x \in S : \A y \in S :
                      IF r THEN Rank(x) >= Rank(y) ELSE Rank(x) <= Rank(y)
         IN  << m >> \o Listing(S \ {m}, r)

\* the filesystem after `rm -r p`
RemoveTree(f, p) == [q \in AllPaths |-> IF IsPrefix(p, q) THEN "gone" ELSE f[q]]

-----------------------------------------------------------------------------
(* Patterns *)

\* str_to_regex: the pattern is compiled as ^(s)$
str_to_regex(s) == [src |-> s, anchored |-> TRUE]

\* Regex::is_match on the names of the model, for the anchored regexes
FullMatch(src) ==
    CASE src = "Cargo.toml"        -> {"Cargo.toml"}
      [] src = "target"            -> {"target"}
      [] src = "Makefile|makefile" -> {"Makefile", "makefile"}
      [] src = "Makefile"          -> {"Makefile"}
      [] src = "__pycache__"       -> {"__pycache__"}
      [] src = ".*\\.py[co]"       -> {"m.pyc", "x.pyo"}
      [] src = ".git"              -> {".git"}
      [] src = "build.ninja"       -> {"build.ninja"}
      [] OTHER                     -> {}

is_match(re, name) == re.anchored /\ name \in FullMatch(re.src)

NewPattern(name, files, dirs, checks, cleans_) ==
    [ name           |-> name,
      files_exist    |-> [i \in 1..Len(files) |-> str_to_regex(files[i])],
      dirs_exist     |-> [i \in 1..Len(dirs) |-> str_to_regex(dirs[i])],
      check_commands |-> checks,
      clean_commands |-> cleans_ ]

rust_proj ==
    NewPattern("built Rust project", <<"Cargo.toml">>, <<"target">>,
               << >>, <<"cargo clean">>)

makefile_clean_proj ==
    NewPattern("Makefile with clean target", <<"Makefile|makefile">>, << >>,
               <<"make clean --dry-run">>, <<"make clean">>)

has_pycache ==
    NewPattern("contains __pycache__/", << >>, <<"__pycache__">>,
               << >>, <<"rm -r __pycache__">>)

has_compiled_pyth ==
    NewPattern("contains compiled python", <<".*\\.py[co]">>, << >>,
               << >>, <<"rm *.pyc *.pyo">>)

git_repo ==
    NewPattern("git repo", << >>, <<".git">>, << >>, <<"git gc --aggressive">>)

ninja_clean_proj ==
    NewPattern("build.ninja with clean target", <<"build.ninja">>, << >>,
               <<"ninja clean -n">>, <<"ninja clean">>)

pats ==
    << rust_proj, makefile_clean_proj, has_pycache, has_compiled_pyth, git_repo,
       ninja_clean_proj >>

\* Patterns the builder can construct besides the built-in ones: several patterns
\* of one kind, several check and clean commands.
TestPatterns ==
    { makefile_clean_proj,
      rust_proj,
      NewPattern("two file patterns", <<".*\\.py[co]", "Makefile">>, << >>,
                 <<"check 1", "check 2">>, <<"clean 1", "clean 2">>),
      NewPattern("overlapping file patterns", <<"Makefile|makefile", "Makefile">>,
                 << >>, <<"check 1">>, <<"clean 1", "clean 2">>),
      NewPattern("file and dir pattern", <<"Makefile|makefile">>, <<"target">>,
                 <<"check 1", "check 2">>, <<"clean 1">>) }

-----------------------------------------------------------------------------
(* Running a command *)

\* What a command spawned under `timeout --kill-after=5s 10s sh -x -c cmd` does.
Behaviours ==
    { "exit0",      \* exits 0 within the time limit
      "exit1",      \* exits 1 within the time limit
      "exit124",    \* exits 124 of its own accord within the time limit
      "soft",       \* still running at 10s, ends on the TERM signal
      "hard",       \* still running at 15s, killed with the KILL signal
      "nospawn" }   \* Command::status fails, nothing is spawned

Exited(c) == [tag |-> "exited", val |-> c]
Signaled(s) == [tag |-> "signaled", val |-> s]
IoError == [tag |-> "ioerr", val |-> 0]

\* The results Command::status can give for a behaviour.  A forced kill hits
\* the whole process group: the wrapper dies of signal 9 itself, or reports 128+9.
WaitStatus(b) ==
    CASE b = "exit0"   -> { Exited(0) }
      [] b = "exit1"   -> { Exited(1) }
      [] b = "exit124" -> { Exited(124) }
      [] b = "soft"    -> { Exited(124) }
      [] b = "hard"    -> { Signaled(9), Exited(137) }
      [] b = "nospawn" -> { IoError }

\* ExitStatus::success
success(st) == st.tag = "exited" /\ st.val = 0

\* every exit code above 123 taken for the timeout
run_command_above123(st) ==
    IF st.tag = "ioerr" THEN [tag |-> "Err", kind |-> "Spawn", st |-> st]
    ELSE IF st.tag = "exited" /\ st.val > 123
         THEN [tag |-> "Err", kind |-> "TimedOut", st |-> st]
         ELSE [tag |-> "Ok", kind |-> "", st |-> st]

\* run_command, on the result of c.status()
run_command(st) ==
    IF st.tag = "ioerr" THEN [tag |-> "Err", kind |-> "Spawn", st |-> st]
    ELSE IF st.tag = "exited" /\ st.val = 124
         THEN [tag |-> "Err", kind |-> "TimedOut", st |-> st]
         ELSE [tag |-> "Ok", kind |-> "", st |-> st]

\* the filesystem after `rm *.pyc *.pyo` in d
RemovePyc(f, d) ==
    [q \in AllPaths |->
        IF q \in Children(f, d) /\ f[q] = "file" /\ Last(q) \in FullMatch(".*\\.py[co]")
        THEN "gone" ELSE f[q]]

\* What a command that exits 0 leaves behind in directory d.
Effect(cmd, d, f) ==
    CASE cmd = "cargo clean"       -> RemoveTree(f, d \o <<"target">>)
      [] cmd = "rm -r __pycache__" -> RemoveTree(f, d \o <<"__pycache__">>)
      [] cmd = "rm *.pyc *.pyo"    -> RemovePyc(f, d)
      [] cmd = "make clean"        -> RemovePyc(RemoveTree(f, d \o <<"__pycache__">>), d)
      [] OTHER                     -> f

\* The loop `for c in cmds { if !run_command(c, d)?.success() { return Ok(false) } }
\* Ok(true)`, from command i on; io[j] is what command j does when spawned.
RECURSIVE RunAll(_, _, _, _, _, _)
RunAll(cmds, io, i, d, f, log) ==
    IF i > Len(cmds) THEN [res |-> "Ok_true", kind |-> "", fs |-> f, runs |-> log]
    ELSE LET r    == run_command(io[i].st)
             log2 == Append(log, [cmd |-> cmds[i], cwd |-> d, beh |-> io[i].beh,
                                  res |-> r])
             f2   == IF r.tag = "Ok" /\ success(r.st) THEN Effect(cmds[i], d, f) ELSE f
         IN  IF r.tag = "Err"
             THEN [res |-> "Err", kind |-> r.kind, fs |-> f2, runs |-> log2]
             ELSE IF ~success(r.st)
                  THEN [res |-> "Ok_false", kind |-> "", fs |-> f2, runs |-> log2]
                  ELSE RunAll(cmds, io, i + 1, d, f2, log2)

\* what one spawned command does, with the wait status the caller then sees
IoSet == UNION { { [beh |-> b, st |-> s] : s \in WaitStatus(b) } : b \in Behaviours }

\* the choices for n commands
IoChoices(n) == [1..n -> IoSet]

-----------------------------------------------------------------------------
(* Pattern::match_dir and Pattern::clean_dir *)

AnyMatch(res, name) == \E i \in DOMAIN res : is_match(res[i], name)

\* n_matched_files after the loop over the entries
MatchedFiles(pat, d, f) ==
    Cardinality({ c \in Children(f, d) :
                    f[c] = "file" /\ AnyMatch(pat.files_exist, Last(c)) })

\* the `ty.is_dir()` test of the entry loop left out
MatchedDirsAnyType(pat, d, f) ==
    Cardinality({ c \in Children(f, d) :
                    f[c] # "gone" /\ AnyMatch(pat.dirs_exist, Last(c)) })

\* n_matched_dirs after the loop over the entries
MatchedDirs(pat, d, f) ==
    Cardinality({ c \in Children(f, d) :
                    f[c] = "dir" /\ AnyMatch(pat.dirs_exist, Last(c)) })

\* the early return Ok(false) of match_dir
TooFewMatched(pat, nf, nd) == nf < Len(pat.files_exist) \/ nd < Len(pat.dirs_exist)

\* the entries counted in the tree as it was before any cleanup ran
match_dir_stale(pat, d, f, np, io) ==
    IF ReadDirFails(Fs0, np, d)
    THEN [res |-> "Err", kind |-> "ReadDir", fs |-> f, runs |-> << >>]
    ELSE IF TooFewMatched(pat, MatchedFiles(pat, d, Fs0), MatchedDirs(pat, d, Fs0))
         THEN [res |-> "Ok_false", kind |-> "", fs |-> f, runs |-> << >>]
         ELSE RunAll(pat.check_commands, io, 1, d, f, << >>)

match_dir(pat, d, f, np, io) ==
    IF ReadDirFails(f, np, d)
    THEN [res |-> "Err", kind |-> "ReadDir", fs |-> f, runs |-> << >>]
    ELSE IF TooFewMatched(pat, MatchedFiles(pat, d, f), MatchedDirs(pat, d, f))
         THEN [res |-> "Ok_false", kind |-> "", fs |-> f, runs |-> << >>]
         ELSE RunAll(pat.check_commands, io, 1, d, f, << >>)

\* the number of check commands match_dir can get to spawn: none when it returns
\* before the loop over check_commands
ChecksReached(pat, d, f, np) ==
    IF ReadDirFails(f, np, d) THEN 0
    ELSE IF TooFewMatched(pat, MatchedFiles(pat, d, f), MatchedDirs(pat, d, f)) THEN 0
         ELSE Len(pat.check_commands)

clean_dir(pat, d, f, io) == RunAll(pat.clean_commands, io, 1, d, f, << >>)

-----------------------------------------------------------------------------
(* main: the traversal loop *)

NoCall == [op |-> "none", pat |-> rust_proj, d |-> Root, res |-> "", kind |-> "",
           io |-> << >>]

Call(op, pat, d, r, io) ==
    [op |-> op, pat |-> pat, d |-> d, res |-> r.res, kind |-> r.kind, io |-> io]

Event(op, pat, d, r) == [op |-> op, pat |-> pat.name, d |-> d, res |-> r.res]

Spawns(what, pat, log) ==
    [i \in 1..Len(log) |-> [what |-> what, pat |-> pat.name, cmd |-> log[i].cmd,
                            cwd |-> log[i].cwd]]

\* what the caller of run_command sees of a result: the error, or success()
Seen(r) == IF r.tag = "Err" THEN r.kind ELSE IF success(r.st) THEN "success" ELSE "failure"

Statuses(log) ==
    [i \in 1..Len(log) |-> [cmd |-> log[i].cmd, cwd |-> log[i].cwd, st |-> Seen(log[i].res)]]

NoRun == [out |-> << >>, n_matched |-> 0, verified |-> << >>, pc |-> ""]

NoPermChoices ==
    { S \in SUBSET { p \in DOMAIN Tree0 : Tree0[p] = "dir" } : Cardinality(S) <= MaxNoPerm }

\* nothing has been classified, spawned, printed or pushed yet
Fresh ==
    /\ dir = Root
    /\ ri = 1
    /\ n_matched = 0
    /\ n_cleaned = 0
    /\ out = << >>
    /\ errs = << >>
    /\ summary = << >>
    /\ exit_code = -1
    /\ spawned = << >>
    /\ runs = << >>
    /\ last = NoCall
    /\ popped = << >>
    /\ pushed = << >>
    /\ cleans = << >>
    /\ verified = << >>
    /\ evals = << >>

WalkerStart(p) ==
    /\ pc = p
    /\ stk = << Root >>
    /\ Fresh

\* The state when the loop is entered: the root is a directory (lines 93-104).
Init ==
    /\ fs = [p \in AllPaths |-> IF p \in DOMAIN Tree0 THEN Tree0[p] ELSE "gone"]
    /\ noperm \in NoPermChoices
    /\ dry_run \in BOOLEAN
    /\ rev \in BOOLEAN
    /\ WalkerStart("loop")
    /\ upat = rust_proj
    /\ run = 1
    /\ prev = NoRun
    /\ args = << >>

\* the children pushed when the directory is popped, before its rules run
PopAndPush ==
    /\ pc = "loop"
    /\ stk # << >>
    /\ dir' = Last(stk)
    /\ stk' = Front(stk) \o Listing({ c \in Children(fs, Last(stk)) : fs[c] = "dir" }, rev)
    /\ pushed' = pushed \o Listing({ c \in Children(fs, Last(stk)) : fs[c] = "dir" }, rev)
    /\ popped' = Append(popped, Last(stk))
    /\ ri' = 1
    /\ pc' = "rules"
    /\ UNCHANGED << fs, noperm, dry_run, rev, n_matched, n_cleaned, out, errs, summary,
                    exit_code, spawned, runs, last, cleans, verified, upat, run, prev,
                    evals, args >>

\* `while let Some(dir) = stk.pop()`
Pop ==
    /\ pc = "loop"
    /\ stk # << >>
    /\ dir' = Last(stk)
    /\ stk' = Front(stk)
    /\ popped' = Append(popped, Last(stk))
    /\ ri' = 1
    /\ pc' = "rules"
    /\ UNCHANGED << fs, noperm, dry_run, rev, n_matched, n_cleaned, out, errs, summary,
                    exit_code, spawned, runs, last, pushed, cleans, verified, upat, run, prev,
                    evals, args >>

\* `continue` of `for pat in &pats`: the next rule, or the end of the for loop
Continue ==
    IF ri < Len(pats) THEN ri' = ri + 1 /\ pc' = "rules"
                      ELSE ri' = ri /\ pc' = "enum"

\* `break` of `for pat in &pats`
Break == ri' = ri /\ pc' = "enum"

\* the dry_run check left out: cleanup runs in a dry run too
SkipCleanNever(dr) == FALSE

\* the dry_run check inverted
SkipCleanInverted(dr) == ~dr

\* `if dry_run { continue; }`
SkipClean(dr) == dr

\* One rule on dir: match_dir and the match arms, up to the dry_run check.
Classify ==
    /\ pc = "rules"
    /\ \E io \in IoChoices(ChecksReached(pats[ri], dir, fs, noperm)) :
         LET pat == pats[ri]
             m   == match_dir(pat, dir, fs, noperm, io)
         IN  /\ last' = Call("match", pat, dir, m, io)
             /\ runs' = m.runs
             /\ spawned' = spawned \o Spawns("check", pat, m.runs)
             /\ verified' = verified \o Statuses(m.runs)
             /\ evals' = Append(evals, Event("match", pat, dir, m))
             /\ CASE m.res = "Ok_false" ->
                       /\ UNCHANGED << n_matched, out, errs >>
                       /\ Continue
                  [] m.res = "Ok_true" ->
                       /\ n_matched' = n_matched + 1
                       /\ out' = Append(out, [pat |-> pat.name, d |-> dir])
                       /\ errs' = errs
                       /\ IF SkipClean(dry_run) THEN Continue
                          ELSE ri' = ri /\ pc' = "clean"
                  [] m.res = "Err" ->
                       /\ UNCHANGED << n_matched, out >>
                       /\ errs' = Append(errs, [what |-> "Matching", pat |-> pat.name,
                                                d |-> dir, msg |-> m.kind])
                       /\ Break
    /\ UNCHANGED << fs, noperm, dry_run, rev, stk, dir, n_cleaned, summary, exit_code,
                    popped, pushed, cleans, upat, run, prev, args >>

\* n_cleaned counted for every clean_dir call, whatever it returned
CleanCountsAll ==
    /\ pc = "clean"
    /\ \E io \in IoChoices(Len(pats[ri].clean_commands)) :
         LET pat == pats[ri]
             c   == clean_dir(pat, dir, fs, io)
         IN  /\ last' = Call("clean", pat, dir, c, io)
             /\ runs' = c.runs
             /\ spawned' = spawned \o Spawns("clean", pat, c.runs)
             /\ fs' = c.fs
             /\ cleans' = Append(cleans, [pat |-> pat.name, d |-> dir, res |-> c.res])
             /\ evals' = Append(evals, Event("clean", pat, dir, c))
             /\ IF c.res = "Ok_true"
                THEN n_cleaned' = n_cleaned + 1 /\ errs' = errs
                ELSE /\ n_cleaned' = n_cleaned + 1
                     /\ errs' = Append(errs,
                          [what |-> "Clean commands", pat |-> pat.name, d |-> dir,
                           msg |-> IF c.res = "Ok_false" THEN "Exit status was non-zero"
                                   ELSE c.kind])
             /\ Continue
    /\ UNCHANGED << noperm, dry_run, rev, stk, dir, n_matched, out, summary, exit_code,
                    popped, pushed, verified, upat, run, prev, args >>

\* a failed clean_dir leaving the rule loop like a match error
CleanBreaks ==
    /\ pc = "clean"
    /\ \E io \in IoChoices(Len(pats[ri].clean_commands)) :
         LET pat == pats[ri]
             c   == clean_dir(pat, dir, fs, io)
         IN  /\ last' = Call("clean", pat, dir, c, io)
             /\ runs' = c.runs
             /\ spawned' = spawned \o Spawns("clean", pat, c.runs)
             /\ fs' = c.fs
             /\ cleans' = Append(cleans, [pat |-> pat.name, d |-> dir, res |-> c.res])
             /\ evals' = Append(evals, Event("clean", pat, dir, c))
             /\ IF c.res = "Ok_true"
                THEN n_cleaned' = n_cleaned + 1 /\ errs' = errs
                ELSE /\ n_cleaned' = n_cleaned
                     /\ errs' = Append(errs,
                          [what |-> "Clean commands", pat |-> pat.name, d |-> dir,
                           msg |-> IF c.res = "Ok_false" THEN "Exit status was non-zero"
                                   ELSE c.kind])
             /\ IF c.res = "Ok_true" THEN Continue ELSE Break
    /\ UNCHANGED << noperm, dry_run, rev, stk, dir, n_matched, out, summary, exit_code,
                    popped, pushed, verified, upat, run, prev, args >>

\* clean_dir for the rule that matched, and the arms of its result
Clean ==
    /\ pc = "clean"
    /\ \E io \in IoChoices(Len(pats[ri].clean_commands)) :
         LET pat == pats[ri]
             c   == clean_dir(pat, dir, fs, io)
         IN  /\ last' = Call("clean", pat, dir, c, io)
             /\ runs' = c.runs
             /\ spawned' = spawned \o Spawns("clean", pat, c.runs)
             /\ fs' = c.fs
             /\ cleans' = Append(cleans, [pat |-> pat.name, d |-> dir, res |-> c.res])
             /\ evals' = Append(evals, Event("clean", pat, dir, c))
             /\ IF c.res = "Ok_true"
                THEN n_cleaned' = n_cleaned + 1 /\ errs' = errs
                ELSE /\ n_cleaned' = n_cleaned
                     /\ errs' = Append(errs,
                          [what |-> "Clean commands", pat |-> pat.name, d |-> dir,
                           msg |-> IF c.res = "Ok_false" THEN "Exit status was non-zero"
                                   ELSE c.kind])
             /\ Continue
    /\ UNCHANGED << noperm, dry_run, rev, stk, dir, n_matched, out, summary, exit_code,
                    popped, pushed, verified, upat, run, prev, args >>

\* the subdirectories as they were before any cleanup ran
DirChildrenStale(f, d, r) == Listing({ c \in Children(Fs0, d) : Fs0[c] = "dir" }, r)

\* the subdirectories `for f in fs::read_dir(&dir).unwrap()` pushes, in order
DirChildren(f, d, r) == Listing({ c \in Children(f, d) : f[c] = "dir" }, r)

\* `for f in fs::read_dir(&dir).unwrap() { ... stk.push(f.path()) }`
Enumerate ==
    /\ pc = "enum"
    /\ IF ReadDirFails(fs, noperm, dir)
       THEN \* unwrap on Err: the thread panics, the process exits with 101
            /\ pc' = "panicked"
            /\ exit_code' = 101
            /\ UNCHANGED << stk, pushed >>
       ELSE /\ stk' = stk \o DirChildren(fs, dir, rev)
            /\ pushed' = pushed \o DirChildren(fs, dir, rev)
            /\ pc' = "loop"
            /\ exit_code' = exit_code
    /\ UNCHANGED << fs, noperm, dry_run, rev, dir, ri, n_matched, n_cleaned, out, errs,
                    summary, spawned, runs, last, popped, cleans, verified, upat, run, prev,
                    evals, args >>

\* the loop ends: println!("Cleaned {n_cleaned}/{n_matched} matches"), main returns
Summary ==
    /\ pc = "loop"
    /\ stk = << >>
    /\ summary' = << n_cleaned, n_matched >>
    /\ exit_code' = 0
    /\ pc' = "done"
    /\ UNCHANGED << fs, noperm, dry_run, rev, stk, dir, ri, n_matched, n_cleaned, out,
                    errs, spawned, runs, last, popped, pushed, cleans, verified, upat, run, prev,
                    evals, args >>

Next == Pop \/ Classify \/ Clean \/ Enumerate \/ Summary

Spec == Init /\ [][Next]_vars

\* The process is scheduled until it exits, and every command it waits for
\* returns: the timeout wrapper ends it after 10s, or 15s with the kill.
FairSpec == Spec /\ WF_vars(Next)

-----------------------------------------------------------------------------
(* A dry run repeated on the tree the first dry run left behind *)

Rerun ==
    /\ pc \in {"done", "panicked"}
    /\ dry_run
    /\ run = 1
    /\ run' = 2
    /\ prev' = [out |-> out, n_matched |-> n_matched, verified |-> verified, pc |-> pc]
    /\ pc' = "loop"
    /\ stk' = << Root >>
    /\ dir' = Root
    /\ ri' = 1
    /\ n_matched' = 0
    /\ n_cleaned' = 0
    /\ out' = << >>
    /\ errs' = << >>
    /\ summary' = << >>
    /\ exit_code' = -1
    /\ spawned' = << >>
    /\ runs' = << >>
    /\ last' = NoCall
    /\ popped' = << >>
    /\ pushed' = << >>
    /\ cleans' = << >>
    /\ verified' = << >>
    /\ evals' = << >>
    /\ UNCHANGED << fs, noperm, dry_run, rev, upat, args >>

NextTwice == Next \/ Rerun

SpecTwice == Init /\ [][NextTwice]_vars

-----------------------------------------------------------------------------
(* main from the start: argument parsing and validation of the root *)

\* the arguments that start with '-'
FlagTokens == {"-n", "-l", "-v", "-h"}

ArgTokens == FlagTokens \cup {"DIR"}

ArgLists == UNION { [1..n -> ArgTokens] : n \in 0..MaxArgs }

\* the loop over the flags: usage() at the first flag that is none of -n, -v, -l
RECURSIVE ScanFlags(_, _, _)
ScanFlags(a, i, acc) ==
    IF i > Len(a) THEN acc
    ELSE IF a[i] \notin FlagTokens THEN ScanFlags(a, i + 1, acc)
    ELSE IF a[i] = "-n" THEN ScanFlags(a, i + 1, [acc EXCEPT !.dry_run = TRUE])
    ELSE IF a[i] = "-v" THEN ScanFlags(a, i + 1, [acc EXCEPT !.verbose = TRUE])
    ELSE IF a[i] = "-l" THEN ScanFlags(a, i + 1, [acc EXCEPT !.list_pats = TRUE])
    ELSE [acc EXCEPT !.usage = TRUE]

NoFlags == [dry_run |-> FALSE, verbose |-> FALSE, list_pats |-> FALSE, usage |-> FALSE]

\* non_flag_args
NonFlagArgs(a) == SelectSeq(a, LAMBDA x : x \notin FlagTokens)

\* meta.is_dir()
MetaIsDirAlways(t) == TRUE

MetaIsDir(t) == t = "dir"

\* the root exists, is a plain file, or is the directory tree
RootChoices ==
    { [p \in AllPaths |-> IF p \in DOMAIN Tree0 THEN Tree0[p] ELSE "gone"],
      [p \in AllPaths |-> IF p = Root THEN "file" ELSE "gone"],
      [p \in AllPaths |-> "gone"] }

InitCli ==
    /\ args \in ArgLists
    /\ fs \in RootChoices
    /\ noperm = {}
    /\ dry_run = FALSE
    /\ rev = FALSE
    /\ pc = "start"
    /\ stk = << >>
    /\ Fresh
    /\ upat = rust_proj
    /\ run = 1
    /\ prev = NoRun

\* lines 26-43: no argument at all, or the flags
ParseArgs ==
    /\ pc = "start"
    /\ LET f == ScanFlags(args, 1, NoFlags)
       IN  IF Len(args) = 0 \/ f.usage
           THEN pc' = "exited" /\ exit_code' = 1 /\ dry_run' = f.dry_run
           ELSE /\ dry_run' = f.dry_run
                /\ exit_code' = exit_code
                /\ pc' = IF f.list_pats THEN "list" ELSE "root"
    /\ UNCHANGED << fs, noperm, rev, stk, dir, ri, n_matched, n_cleaned, out, errs,
                    summary, spawned, runs, last, popped, pushed, cleans, verified,
                    upat, run, prev, evals, args >>

\* lines 81-84: println!("{pats:#?}"); exit(0)
ListPats ==
    /\ pc = "list"
    /\ pc' = "exited"
    /\ exit_code' = 0
    /\ UNCHANGED << fs, noperm, dry_run, rev, stk, dir, ri, n_matched, n_cleaned, out,
                    errs, summary, spawned, runs, last, popped, pushed, cleans,
                    verified, upat, run, prev, evals, args >>

\* lines 88-91: exactly one argument that is no flag, or usage()
RootArg ==
    /\ pc = "root"
    /\ IF Len(NonFlagArgs(args)) = 1
       THEN pc' = "meta" /\ exit_code' = exit_code
       ELSE pc' = "exited" /\ exit_code' = 1
    /\ UNCHANGED << fs, noperm, dry_run, rev, stk, dir, ri, n_matched, n_cleaned, out,
                    errs, summary, spawned, runs, last, popped, pushed, cleans,
                    verified, upat, run, prev, evals, args >>

\* lines 93-125: fs::metadata(root_dir), meta.is_dir(), then stk = vec![root_dir]
Validate ==
    /\ pc = "meta"
    /\ IF fs[Root] = "gone" \/ ~MetaIsDir(fs[Root])
       THEN pc' = "exited" /\ exit_code' = 1 /\ stk' = stk
       ELSE pc' = "loop" /\ exit_code' = exit_code /\ stk' = << Root >>
    /\ UNCHANGED << fs, noperm, dry_run, rev, dir, ri, n_matched, n_cleaned, out,
                    errs, summary, spawned, runs, last, popped, pushed, cleans,
                    verified, upat, run, prev, evals, args >>

NextCli == ParseArgs \/ ListPats \/ RootArg \/ Validate \/ Next

SpecCli == InitCli /\ [][NextCli]_vars

-----------------------------------------------------------------------------
(* match_dir and clean_dir of one Pattern on one directory *)

\* a directory (the root) holding the entries S with the types t
UnitDir(S, t) ==
    [p \in AllPaths |->
        IF p = Root THEN "dir"
        ELSE IF Len(p) = 1 /\ p[1] \in S THEN t[p[1]] ELSE "gone"]

InitPattern ==
    /\ upat \in TestPatterns
    /\ \E S \in SUBSET UnitNames :
         /\ Cardinality(S) <= MaxEntries
         /\ \E t \in [S -> EntryTypes] : fs = UnitDir(S, t)
    /\ noperm \in {{}, {Root}}
    /\ dry_run = FALSE
    /\ rev = FALSE
    /\ WalkerStart("call")
    /\ run = 1
    /\ prev = NoRun
    /\ args = << >>

ApplyMatch ==
    /\ pc = "call"
    /\ pc' = "returned"
    /\ \E io \in IoChoices(Len(upat.check_commands)) :
         LET m == match_dir(upat, Root, fs, noperm, io)
         IN  /\ last' = Call("match", upat, Root, m, io)
             /\ runs' = m.runs
             /\ spawned' = Spawns("check", upat, m.runs)
    /\ UNCHANGED << fs, noperm, dry_run, rev, stk, dir, ri, n_matched, n_cleaned,
                    out, errs, summary, exit_code, popped, pushed, cleans, verified,
                    upat, run, prev, evals, args >>

ApplyClean ==
    /\ pc = "call"
    /\ pc' = "returned"
    /\ \E io \in IoChoices(Len(upat.clean_commands)) :
         LET c == clean_dir(upat, Root, fs, io)
         IN  /\ last' = Call("clean", upat, Root, c, io)
             /\ runs' = c.runs
             /\ spawned' = Spawns("clean", upat, c.runs)
             /\ fs' = c.fs
    /\ UNCHANGED << noperm, dry_run, rev, stk, dir, ri, n_matched, n_cleaned,
                    out, errs, summary, exit_code, popped, pushed, cleans, verified,
                    upat, run, prev, evals, args >>

NextPattern == ApplyMatch \/ ApplyClean

SpecPattern == InitPattern /\ [][NextPattern]_vars

-----------------------------------------------------------------------------
(* Properties *)

Terminated == pc \in {"done", "panicked"}

Count(s, x) == Cardinality({ i \in DOMAIN s : s[i] = x })

PatIndex(name) == CHOOSE i \in DOMAIN pats : pats[i].name = name

\* the directories of f every ancestor of which is a directory
RealDirs(f) ==
    { p \in AllPaths : \A k \in 0..Len(p) : f[SubSeq(p, 1, k)] = "dir" }

\* pattern i of res is satisfied by an entry of type ty directly in d
Satisfied(res, ty, d, f) ==
    \A i \in DOMAIN res :
        \E c \in Children(f, d) : f[c] = ty /\ is_match(res[i], Last(c))

AllExit0(io) == \A i \in DOMAIN io : io[i].beh = "exit0"

HasFlag(a, f) == \E i \in DOMAIN a : a[i] = f

\* an argument that starts with '-' and is none of the recognized flags
UnknownFlag(a) == \E i \in DOMAIN a : a[i] \in FlagTokens \ {"-n", "-v", "-l"}

\* nothing classified, nothing spawned, nothing pushed on the frontier
Untouched ==
    /\ stk = << >> /\ popped = << >> /\ pushed = << >>
    /\ spawned = << >> /\ evals = << >> /\ last = NoCall

Starting == pc \in {"start", "list", "root", "meta", "exited"}

\* C11 as claimed: on no argument, an unknown flag, zero or several positional
\* arguments, or a root that is missing or no directory, the process exits with
\* code 1 and touches nothing.
C11_FatalAsClaimed ==
    ( \/ Len(args) = 0 \/ UnknownFlag(args) \/ Len(NonFlagArgs(args)) # 1
      \/ fs[Root] # "dir" ) =>
        /\ Starting /\ Untouched
        /\ pc = "exited" => exit_code = 1

\* C11 as amended: the same on no argument or an unknown flag and, when the
\* list flag is not given, on zero or several positional arguments or a root
\* that is missing or no directory; with the list flag (and no unknown flag)
\* the process exits with code 0, and touches nothing either.
C11_Fatal ==
    LET early == Len(args) = 0 \/ UnknownFlag(args)
        list  == ~early /\ HasFlag(args, "-l")
        late  == ~early /\ ~list /\ (Len(NonFlagArgs(args)) # 1 \/ fs[Root] # "dir")
    IN  /\ (early \/ list \/ late) => (Starting /\ Untouched)
        /\ (pc = "exited" /\ (early \/ late)) => exit_code = 1
        /\ (pc = "exited" /\ list) => exit_code = 0
        /\ pc = "exited" => (early \/ list \/ late)

C11_Witness ==
    /\ pc = "exited" /\ exit_code = 1
    /\ args = << "-n", "DIR" >> /\ fs[Root] = "file"

\* C1: on a readable directory match_dir returns Ok(true) if and only if every
\* file pattern is satisfied by a plain file of the directory, every directory
\* pattern by a subdirectory, and every check command exits 0.
C1_MatchedIff ==
    (last.op = "match" /\ ~ReadDirFails(fs, noperm, last.d)) =>
        ( last.res = "Ok_true"
          <=> ( /\ Satisfied(last.pat.files_exist, "file", last.d, fs)
                /\ Satisfied(last.pat.dirs_exist, "dir", last.d, fs)
                /\ AllExit0(last.io) ) )

\* C2: no path is popped or pushed twice, and when the run has ended every
\* directory reachable from the root through real directories was popped once.
C2_Complete ==
    /\ \A d \in AllPaths : Count(popped, d) <= 1 /\ Count(pushed, d) <= 1
    /\ Terminated => \A d \in RealDirs(fs) : Count(popped, d) = 1

\* C3: a directory whose enumeration fails does not end the traversal: the run
\* ends only when no directory is pending, every pushed path having been popped.
C3_FaultIsolation ==
    Terminated =>
        /\ stk = << >>
        /\ \A i \in DOMAIN pushed : Count(popped, pushed[i]) = 1

\* C4: a run that has ended has printed the summary line "Cleaned
\* n_cleaned/n_matched matches" and exited with code 0.
C4_SummaryAndExit0 ==
    Terminated => (summary = << n_cleaned, n_matched >> /\ exit_code = 0)

\* C5: a command that runs longer than the timeout, whether it stops at the
\* soft timeout or is killed after the grace period, makes run_command return
\* the TimedOut error.
C5_TimedOut ==
    \A i \in DOMAIN runs :
        runs[i].beh \in {"soft", "hard"} =>
            (runs[i].res.tag = "Err" /\ runs[i].res.kind = "TimedOut")

CleanSpawns == SelectSeq(spawned, LAMBDA x : x.what = "clean")

\* the matches whose clean step is over
Processed == IF pc = "clean" THEN Len(out) - 1 ELSE Len(out)

\* C6: in a dry run no clean command is spawned and n_cleaned stays 0, while
\* the matches are counted and reported; otherwise every match has the clean
\* command of its rule spawned with the matched directory as working directory.
C6_DryRun ==
    /\ n_matched = Len(out)
    /\ dry_run => (CleanSpawns = << >> /\ n_cleaned = 0 /\ cleans = << >>)
    /\ ~dry_run =>
          /\ Len(CleanSpawns) = Processed
          /\ \A i \in 1..Processed :
                /\ CleanSpawns[i].pat = out[i].pat
                /\ CleanSpawns[i].cwd = out[i].d
                /\ CleanSpawns[i].cmd = pats[PatIndex(out[i].pat)].clean_commands[1]

C6_Witness ==
    /\ dry_run /\ pc = "done" /\ noperm = {}
    /\ \E i \in DOMAIN out : out[i] = [pat |-> rust_proj.name, d |-> <<"proj">>]

C6_WitnessClean ==
    /\ ~dry_run /\ pc = "done"
    /\ \E i \in DOMAIN spawned :
          spawned[i] = [what |-> "clean", pat |-> rust_proj.name, cmd |-> "cargo clean",
                        cwd |-> <<"proj">>]

\* the first command that does not exit 0, or 0 when every command exits 0
FirstNot0(io) ==
    IF AllExit0(io) THEN 0
    ELSE CHOOSE k \in DOMAIN io :
            io[k].beh # "exit0" /\ \A j \in 1..(k - 1) : io[j].beh = "exit0"

\* the commands cmds[1..n] were run in this order, and no other
RanInOrder(cmds, n) ==
    /\ Len(runs) = n
    /\ \A i \in 1..n : runs[i].cmd = cmds[i]

\* C7: clean_dir runs the clean commands in their order up to the first that
\* does not succeed; it returns true exactly when all exited 0, false when that
\* command exited non-zero, an error when it could not be spawned or timed out.
C7_CleanDir ==
    last.op = "clean" =>
        LET cmds == last.pat.clean_commands
            k    == FirstNot0(last.io)
        IN  /\ last.res = "Ok_true" <=> k = 0
            /\ k = 0 => RanInOrder(cmds, Len(cmds))
            /\ k # 0 =>
                 /\ RanInOrder(cmds, k)
                 /\ last.io[k].beh \in {"exit1", "exit124"} => last.res = "Ok_false"
                 /\ last.io[k].beh \in {"nospawn", "soft", "hard"} => last.res = "Err"

\* C8: the check commands run front to back up to the first that exits
\* non-zero, which makes match_dir return Ok(false) and not an error; the
\* walker then reports nothing for the rule and goes on to the next rule;
\* an error comes only from a spawn failure or a timeout.
C8_VerifyShortCircuit ==
    (last.op = "match" /\ runs # << >>) =>
        LET cmds == last.pat.check_commands
            k    == FirstNot0(last.io)
        IN  /\ k = 0 => RanInOrder(cmds, Len(cmds))
            /\ k # 0 => RanInOrder(cmds, k)
            /\ (k # 0 /\ last.io[k].beh \in {"exit1", "exit124"}) =>
                 /\ last.res = "Ok_false"
                 /\ \A i \in DOMAIN out : out[i] # [pat |-> last.pat.name, d |-> last.d]
                 /\ \A i \in DOMAIN errs :
                       ~(errs[i].pat = last.pat.name /\ errs[i].d = last.d)
                 /\ pc \in {"rules", "enum"}
            /\ last.res = "Err" => last.io[k].beh \in {"nospawn", "soft", "hard"}

\* C9: after a match error for rule R on directory D nothing of a later rule
\* happens on D (no match line, no command, no diagnostic), and the traversal
\* goes on: the run ends with the summary, D's subdirectories and the rest of
\* the frontier popped.
C9_MatchError ==
    \A e \in DOMAIN errs :
        errs[e].what = "Matching" =>
            LET r == PatIndex(errs[e].pat)
                d == errs[e].d
            IN  /\ Count(popped, d) = 1
                /\ \A i \in DOMAIN out : out[i].d = d => PatIndex(out[i].pat) < r
                /\ \A i \in DOMAIN spawned :
                      spawned[i].cwd = d => PatIndex(spawned[i].pat) <= r
                /\ \A i \in DOMAIN errs :
                      errs[i].d = d => PatIndex(errs[i].pat) <= r
                /\ Terminated =>
                      /\ pc = "done"
                      /\ stk = << >>
                      /\ \A c \in Children(fs, d) : fs[c] = "dir" => Count(popped, c) = 1

\* C10: two dry runs of the same tree in which the check commands end the same
\* way produce the same match lines and the same matched count.
C10_DryRunIdempotent ==
    (run = 2 /\ dry_run /\ Terminated /\ verified = prev.verified) =>
        (out = prev.out /\ n_matched = prev.n_matched)

C10_Witness ==
    /\ run = 2 /\ dry_run /\ pc = "done" /\ verified = prev.verified
    /\ Len(out) >= 4
    /\ \E i \in DOMAIN out : out[i].pat = makefile_clean_proj.name

\* C12: when some file pattern or some directory pattern of the rule is
\* satisfied by no child of a readable directory, match_dir returns Ok(false)
\* and spawns no check command.
C12_VerifyGated ==
    ( /\ last.op = "match"
      /\ ~ReadDirFails(fs, noperm, last.d)
      /\ ~( /\ Satisfied(last.pat.files_exist, "file", last.d, fs)
            /\ Satisfied(last.pat.dirs_exist, "dir", last.d, fs) ) )
    => (last.res = "Ok_false" /\ runs = << >>)

\* p lies below d
Below(d, p) == Len(p) > Len(d) /\ IsPrefix(d, p)

\* the step of the walker for popped[i] is over
StepOver(i) == popped[i] # dir \/ pc \in {"loop", "done"}

\* C13: while the rules of dir are classified and cleaned nothing below dir is
\* on the frontier; the enumeration starts only when the rule loop is over; a
\* finished step has pushed every subdirectory once, and no path is pushed twice.
C13_EnumerateAfterRules ==
    /\ \A p \in AllPaths : Count(pushed, p) <= 1
    /\ pc \in {"rules", "clean", "enum"} =>
          /\ \A i \in DOMAIN pushed : ~Below(dir, pushed[i])
          /\ \A i \in DOMAIN stk : ~Below(dir, stk[i])
    /\ pc = "enum" =>
          LET e == evals[Len(evals)]
          IN  /\ e.d = dir
              /\ \/ e.op = "match" /\ e.res = "Err"
                 \/ e.pat = pats[Len(pats)].name /\ (e.op = "clean" \/ e.res = "Ok_false"
                                                      \/ dry_run)
    /\ \A i \in DOMAIN popped :
          StepOver(i) =>
              \A c \in Children(fs, popped[i]) : fs[c] = "dir" => Count(pushed, c) = 1

C13_Witness ==
    /\ pc = "loop" /\ ~dry_run
    /\ \E i \in DOMAIN cleans : cleans[i].d = <<"proj">> /\ cleans[i].res = "Ok_false"
    /\ Count(pushed, <<"proj", "target">>) = 1
    /\ Count(popped, <<"proj", "target">>) = 0

InSeq(s, x) == \E i \in DOMAIN s : s[i] = x

\* C14: a directory that a cleanup removed is never pushed and never popped;
\* a dry run leaves the tree as it was, pushes every subdirectory of a directory
\* whose step is over, and has popped and classified every directory of the
\* tree when it ends with the summary.
C14_RemovedNotVisited ==
    /\ \A p \in AllPaths :
          (Fs0[p] = "dir" /\ fs[p] = "gone") => (~InSeq(pushed, p) /\ ~InSeq(popped, p))
    /\ dry_run =>
          /\ fs = Fs0
          /\ \A i \in DOMAIN popped :
                StepOver(i) =>
                    \A c \in Children(Fs0, popped[i]) : Fs0[c] = "dir" => InSeq(pushed, c)
          /\ pc = "done" =>
                \A p \in RealDirs(Fs0) :
                    InSeq(popped, p) /\ \E i \in DOMAIN evals : evals[i].d = p

C14_Witness ==
    /\ ~dry_run
    /\ pc = "done"
    /\ \E i \in DOMAIN cleans :
          cleans[i] = [pat |-> has_pycache.name, d |-> <<"pkg">>, res |-> "Ok_true"]
    /\ fs[<<"pkg", "__pycache__">>] = "gone"
    /\ InSeq(popped, <<"pkg">>)
    /\ ~InSeq(popped, <<"pkg", "__pycache__">>)

\* some pattern of res is matched by an entry of type ty directly in d
TypedMatch(res, ty, d, f) ==
    res = << >> \/ \E c \in Children(f, d) : f[c] = ty /\ AnyMatch(res, Last(c))

\* C15: a rule matches only when its file patterns are satisfied by plain files
\* and its directory patterns by directories; an entry of another type satisfies
\* nothing; every path pushed or popped is a real directory, never the symlink.
C15_EntryTypes ==
    /\ (last.op = "match" /\ last.res = "Ok_true") =>
          /\ Satisfied(last.pat.files_exist, "file", last.d, fs)
          /\ Satisfied(last.pat.dirs_exist, "dir", last.d, fs)
    /\ \A i \in DOMAIN evals :
          (evals[i].op = "match" /\ evals[i].res = "Ok_true") =>
              /\ TypedMatch(pats[PatIndex(evals[i].pat)].files_exist, "file", evals[i].d, Fs0)
              /\ TypedMatch(pats[PatIndex(evals[i].pat)].dirs_exist, "dir", evals[i].d, Fs0)
    /\ \A i \in DOMAIN pushed : pushed[i] \in RealDirs(fs)
    /\ \A i \in DOMAIN popped : popped[i] \in RealDirs(fs)
    /\ \A i \in DOMAIN stk : stk[i] \in RealDirs(fs)

\* the directory repo holds Cargo.toml and a non-directory named target, and a
\* plain file named .git; the root holds the symlink lnk
C15_Witness ==
    /\ pc = "done"
    /\ fs[<<"lnk">>] = "other"
    /\ ~InSeq(pushed, <<"lnk">>)
    /\ \E i \in DOMAIN evals :
          evals[i] = [op |-> "match", pat |-> rust_proj.name, d |-> <<"repo">>,
                      res |-> "Ok_false"]
    /\ \E i \in DOMAIN evals :
          evals[i] = [op |-> "match", pat |-> git_repo.name, d |-> <<"repo">>,
                      res |-> "Ok_false"]

\* a pop takes exactly the last path off the frontier
PopsOne == (pc = "loop" /\ pc' = "rules") => (stk' = Front(stk) /\ dir' = Last(stk))

\* C16: the walker loop comes to an end; every pop removes one path, no path is
\* pushed twice, and the loop is over exactly when the frontier is empty.
C16_Termination ==
    /\ <>Terminated
    /\ [][PopsOne]_vars
    /\ [](\A p \in AllPaths : Count(pushed, p) <= 1)
    /\ [](pc = "loop" => (ENABLED Summary <=> stk = << >>))
    /\ [](Terminated => stk = << >>)

CleanedOk == { i \in DOMAIN cleans : cleans[i].res = "Ok_true" }

MatchedOk == { i \in DOMAIN evals : evals[i].op = "match" /\ evals[i].res = "Ok_true" }

\* C17: n_matched is the number of match_dir calls that returned Ok(true),
\* n_cleaned the number of clean_dir calls that returned Ok(true), each for a
\* pair that matched; 0 <= n_cleaned <= n_matched; the summary holds the two
\* values and is printed only when the frontier is empty.
C17_Counters ==
    /\ n_matched = Cardinality(MatchedOk)
    /\ n_matched = Len(out)
    /\ n_cleaned = Cardinality(CleanedOk)
    /\ \A i \in DOMAIN cleans : InSeq(out, [pat |-> cleans[i].pat, d |-> cleans[i].d])
    /\ 0 <= n_cleaned /\ n_cleaned <= n_matched
    /\ summary # << >> <=> pc = "done"
    /\ summary # << >> => (stk = << >> /\ summary = << n_cleaned, n_matched >>)

C17_Witness ==
    /\ pc = "done"
    /\ n_cleaned = 2
    /\ n_matched = 4
    /\ \E i \in DOMAIN cleans : cleans[i].res = "Err"
    /\ \E i \in DOMAIN cleans : cleans[i].res = "Ok_false"

\* clean_dir call i of the run did not return Ok(true)
FailedClean(i) == evals[i].op = "clean" /\ evals[i].res # "Ok_true"

\* the step of the walker for directory d is over
DirDone(d) == InSeq(popped, d) /\ (d # dir \/ pc \in {"loop", "done"})

\* C18: after a clean_dir that returned Ok(false) or an error, the failure is
\* in the diagnostics, n_cleaned counts only the successful cleanups, the match
\* stays counted, the next rule is classified on the same directory, the rules
\* after it up to the first match error too, and the children are pushed.
C18_CleanFailureLocal ==
    \A i \in DOMAIN evals :
        FailedClean(i) =>
            LET e == evals[i]
                k == PatIndex(e.pat)
            IN  /\ \E j \in DOMAIN errs :
                      /\ errs[j].what = "Clean commands"
                      /\ errs[j].pat = e.pat
                      /\ errs[j].d = e.d
                /\ n_cleaned = Cardinality(CleanedOk)
                /\ InSeq(out, [pat |-> e.pat, d |-> e.d])
                /\ n_matched = Len(out)
                /\ (k < Len(pats) /\ i = Len(evals)) =>
                      (pc = "rules" /\ ri = k + 1 /\ dir = e.d)
                /\ (k < Len(pats) /\ i < Len(evals)) =>
                      /\ evals[i + 1].op = "match"
                      /\ evals[i + 1].pat = pats[k + 1].name
                      /\ evals[i + 1].d = e.d
                /\ (k = Len(pats) /\ i = Len(evals)) => (pc = "enum" \/ DirDone(e.d))
                /\ ~(pc = "panicked" /\ dir = e.d)
                /\ DirDone(e.d) =>
                      /\ \A n \in (k + 1)..Len(pats) :
                            \E j \in DOMAIN evals :
                                /\ j > i
                                /\ evals[j].d = e.d
                                /\ evals[j].op = "match"
                                /\ \/ evals[j].pat = pats[n].name
                                   \/ PatIndex(evals[j].pat) < n /\ evals[j].res = "Err"
                      /\ \A c \in Children(fs, e.d) : fs[c] = "dir" => InSeq(pushed, c)

C18_Witness ==
    /\ pc = "done"
    /\ InSeq(cleans, [pat |-> makefile_clean_proj.name, d |-> <<"pkg">>, res |-> "Err"])
    /\ InSeq(cleans, [pat |-> has_pycache.name, d |-> <<"pkg">>, res |-> "Ok_false"])
    /\ InSeq(evals, [op |-> "match", pat |-> ninja_clean_proj.name, d |-> <<"pkg">>,
                     res |-> "Ok_false"])
    /\ InSeq(popped, <<"pkg", "__pycache__">>)

\* the event from which the walker goes on to the next rule
RuleOver(e) ==
    \/ e.op = "clean"
    \/ e.op = "match" /\ e.res = "Ok_false"
    \/ e.op = "match" /\ e.res = "Ok_true" /\ dry_run

\* C19: on one directory the rules are classified in the fixed order, the
\* cleanup of a matched rule directly after its classification and before the
\* next rule is classified; a rule is classified on the directory as the
\* cleanups before it left it; in a dry run the directory stays as found.
C19_Interleaved ==
    /\ \A i \in 1..(Len(evals) - 1) :
          LET e == evals[i]
              n == evals[i + 1]
          IN  /\ (e.op = "match" /\ e.res = "Ok_true" /\ ~dry_run) =>
                    n = [op |-> "clean", pat |-> e.pat, d |-> e.d, res |-> n.res]
              /\ n.op = "clean" =>
                    e = [op |-> "match", pat |-> n.pat, d |-> n.d, res |-> "Ok_true"]
              /\ (n.op = "match" /\ PatIndex(n.pat) > 1) =>
                    /\ e.d = n.d
                    /\ PatIndex(e.pat) = PatIndex(n.pat) - 1
                    /\ RuleOver(e)
              /\ (n.op = "match" /\ PatIndex(n.pat) = 1) => e.d # n.d
    /\ pc = "clean" =>
          evals[Len(evals)] = [op |-> "match", pat |-> pats[ri].name, d |-> dir,
                               res |-> "Ok_true"]
    /\ (pc = "rules" /\ ri > 1) =>
          LET e == evals[Len(evals)]
          IN  e.d = dir /\ e.pat = pats[ri - 1].name /\ RuleOver(e)
    /\ (last.op = "match" /\ ~ReadDirFails(fs, noperm, last.d)) =>
          ( (last.res = "Ok_false" /\ runs = << >>)
            <=> ~( /\ Satisfied(last.pat.files_exist, "file", last.d, fs)
                   /\ Satisfied(last.pat.dirs_exist, "dir", last.d, fs) ) )
    /\ dry_run => fs = Fs0

\* make clean in pkg removed __pycache__ and the compiled files, so the two
\* python rules, which match pkg as found, do not match it any more
C19_Witness ==
    /\ ~dry_run
    /\ pc = "done"
    /\ Satisfied(has_pycache.dirs_exist, "dir", <<"pkg">>, Fs0)
    /\ Satisfied(has_compiled_pyth.files_exist, "file", <<"pkg">>, Fs0)
    /\ InSeq(cleans, [pat |-> makefile_clean_proj.name, d |-> <<"pkg">>, res |-> "Ok_true"])
    /\ InSeq(evals, [op |-> "match", pat |-> has_pycache.name, d |-> <<"pkg">>,
                     res |-> "Ok_false"])
    /\ InSeq(evals, [op |-> "match", pat |-> has_compiled_pyth.name, d |-> <<"pkg">>,
                     res |-> "Ok_false"])

\* C20: for every command of the last call, run_command returned the TimedOut
\* error exactly when the wrapper exited with code 124, the spawn error when
\* nothing was spawned, and otherwise the wait status as it was; a command that
\* exits 124 by itself gives the error, and the walker reports the timeout.
C20_TimedOutIff124 ==
    \A i \in DOMAIN runs :
        LET st == last.io[i].st
            r  == runs[i].res
        IN  /\ (r.tag = "Err" /\ r.kind = "TimedOut") <=> st = Exited(124)
            /\ (st # Exited(124) /\ st # IoError) => r = [tag |-> "Ok", kind |-> "", st |-> st]
            /\ st = IoError => (r.tag = "Err" /\ r.kind = "Spawn")
            /\ runs[i].beh = "exit124" =>
                  /\ r.tag = "Err" /\ r.kind = "TimedOut"
                  /\ i = Len(runs)
                  /\ last.res = "Err" /\ last.kind = "TimedOut"
                  /\ errs # << >>
                  /\ errs[Len(errs)].msg = "TimedOut"
                  /\ errs[Len(errs)].d = last.d

C20_Witness ==
    /\ last.op = "match"
    /\ runs # << >>
    /\ runs[1].beh = "exit124"
    /\ runs[1].cmd = "make clean --dry-run"
    /\ pc = "enum"
    /\ errs[Len(errs)].what = "Matching"

====
